---- MODULE Spec2Model ----
(***************************************************************************)
(* Model of multilingual_rag_pipeline/multilingual_ingestion_pipeline.py:  *)
(* MultilingualRAGPipeline.ingest_documents (the orchestrator with its     *)
(* ThreadPoolExecutor and as_completed collector) and                      *)
(* _process_single_document (the per-document worker and its stages), and  *)
(* DocumentProcessor.extract_text called on its own (SpecExtract).         *)
(*                                                                         *)
(* Not modelled: wall-clock times (processing_time, total_processing_time),*)
(* log output, blob names (uuid4) and the content of translation_stats.    *)
(***************************************************************************)
EXTENDS Naturals, Integers, Sequences, FiniteSets, TLC

\* ---------------------------------------------------------------- bounds
MaxDocs == 2        \* longest file_paths list
MaxPool == 2        \* largest configured max_concurrent_files
MaxChunks == 1      \* most chunks the chunking step hands to the index sink
MaxDocChunks == 2   \* the same, when a single document is processed
MaxWords == 5       \* most words of a text given to _create_simple_chunks
MaxWordLen == 2     \* most characters of a word
MaxChunkSize == 4   \* largest configured chunk_size
MaxMinChunkSize == 5    \* largest configured min_chunk_size

\* ------------------------------------------------------ program constants
MinContentLength == 50     \* len(text_content.strip()) < 50
PdfMinTextLength == 100    \* len(text.strip()) < 100

NoneVal == "None"          \* Python's None, where a string field may hold it

\* ------------------------------------------------------------------ paths
\* A path string is the sequence of its "/"-separated components; a
\* component is a stem and an extension ("." is the component Dot).
Dot == [stem |-> ".", ext |-> ""]
File(s, e) == [stem |-> s, ext |-> e]
StrPath(parts) == [isstr |-> TRUE, parts |-> parts]
\* An element of the list that is no str / os.PathLike (e.g. None).
NotAStr == [isstr |-> FALSE, parts |-> <<>>]

IsDot(c) == c = Dot
NotDot(c) == ~IsDot(c)

\* pathlib: Path(s) drops the "." components of s; str() joins what is left.
PathOf(p) == StrPath(SelectSeq(p.parts, NotDot))

\* Path.suffix of the last component, "" when there is none.
Suffix(p) == IF Len(p.parts) = 0 THEN "" ELSE p.parts[Len(p.parts)].ext

\* str.lower() on the extensions the model uses.
Lower(e) == CASE e = "PDF" -> "pdf"
              [] e = "TXT" -> "txt"
              [] OTHER -> e

\* data_utils.FILE_FORMAT_DICT: the format tag inferred from an extension.
FormatTags == {"pdf", "docx", "pptx", "txt", "md", "html"}
FILE_FORMAT_DICT == [e \in FormatTags |-> e]

\* FILE_FORMAT_DICT.get(file_extension, file_extension)
FileFormat(p) ==
    LET file_extension == Lower(Suffix(p))
    IN  IF file_extension \in DOMAIN FILE_FORMAT_DICT
        THEN FILE_FORMAT_DICT[file_extension]
        ELSE file_extension

\* ------------------------------------------------------------------ texts
\* A text is where it came from, the length of its strip() and whether it
\* is the output of translate_text.
NoText == [src |-> NoneVal, len |-> 0, tr |-> FALSE]
Text(s, n) == [src |-> s, len |-> n, tr |-> FALSE]
Translated(t) == [t EXCEPT !.tr = TRUE]
\* Representative lengths: empty, below 50, in [50, 100), at least 100.
TextLens == {0, 10, 60, 120}

\* ---------------------------------------------------------------- results
\* DocumentProcessingResult (dataclass, lines 92-104) with its defaults.
DocumentProcessingResult(ok, file, format, language, translated, chunks, error) ==
    [success |-> ok, original_file |-> file, file_format |-> format,
     detected_language |-> language, translated |-> translated,
     chunks_count |-> chunks, error_message |-> error]

NoResult == DocumentProcessingResult(FALSE, NotAStr, NoneVal, NoneVal, FALSE, 0, NoneVal)

\* ------------------------------------------------------------------ state
VARIABLES
    file_paths,     \* the argument of ingest_documents
    settings,       \* config.processing_settings (read-only during a run)
    libs,           \* PDF_LIBS_AVAILABLE and bs4 importable (module globals)
    clients,        \* which Azure clients the constructors created
    world,          \* the answers each collaborator can give in this run
    opc,            \* where the thread running ingest_documents is
    max_workers,    \* ThreadPoolExecutor._max_workers, 0 before the pool exists
    nsub,           \* number of executor.submit calls made so far
    fut,            \* fut[i]: state of the future of file_paths[i]
    outcome,        \* outcome[i]: what the future holds once finished
    loc,            \* loc[i]: the locals of _process_single_document for i
    calls,          \* calls[i]: collaborator calls made for i, with results
    fs_finished,    \* as_completed: futures found finished on entry, not yet yielded
    fs_pending,     \* as_completed: futures still pending
    waiter,         \* as_completed: waiter.finished_futures
    batch,          \* as_completed: the list being yielded from
    results,        \* the local list results
    total_chunks,   \* the local total_chunks
    report,         \* the PipelineResult returned, or NoReport
    completion,     \* history: futures in the order they finished
    yielded,        \* history: futures in the order as_completed yielded them
    snapshot,       \* history: futures found finished when as_completed started
    extraction,     \* a call of DocumentProcessor.extract_text made directly
    chunking,       \* a call of _create_simple_chunks made directly
    indexing,       \* a call of index_chunks made directly
    inflight        \* history: the work items queued or running at an abort

vars == <<file_paths, settings, libs, clients, world, opc, max_workers, nsub, fut,
          outcome, loc, calls, fs_finished, fs_pending, waiter, batch,
          results, total_chunks, report, completion, yielded, snapshot,
          extraction, chunking, indexing, inflight>>

inputVars == <<file_paths, settings, libs, clients, world>>
poolVars == <<fut, outcome, completion, waiter>>
unitVars == <<extraction, chunking, indexing, inflight>>
collectorVars == <<fs_finished, fs_pending, batch, results, total_chunks,
                   report, yielded, snapshot>>

Docs == 1..Len(file_paths)

\* ------------------------------------------------- collaborator call log
\* lang: the language a detection answered; n: the length of the text a
\* source returned, the number of chunks made, or the number the index
\* backend accepted of the sub submitted.
CallRec(name, ok, lang, sub, n) ==
    [call |-> name, ok |-> ok, lang |-> lang, sub |-> sub, n |-> n]
Call(name, ok) == CallRec(name, ok, NoneVal, 0, 0)

CallsNamed(i, name) == SelectSeq(calls[i], LAMBDA c: c.call = name)
Called(i, name) == Len(CallsNamed(i, name)) > 0

\* ----------------------------------------------------- DocumentProcessor
\* What a backend can answer: it raises, or returns text of some length.
Raises == [ok |-> FALSE, len |-> 0]
Returns(n) == [ok |-> TRUE, len |-> n]
BackendAnswers == {Raises} \cup {Returns(n) : n \in TextLens}

ExtractOk(t, cs) == [ok |-> TRUE, text |-> t, msg |-> NoneVal, calls |-> cs]
ExtractFail(m, cs) == [ok |-> FALSE, text |-> NoText, msg |-> m, calls |-> cs]

\* _extract_with_document_intelligence (lines 278-295); `di` is the answer
\* of begin_analyze_document(...).result(), `before` the calls made before.
ExtractWithDocumentIntelligence(di, before) ==
    IF ~clients.doc_intelligence
    THEN ExtractFail("Document Intelligence client not available", before)
    ELSE LET cs == Append(before, CallRec("begin_analyze_document", di.ok,
                                          NoneVal, 0, di.len))
         IN  IF ~di.ok THEN ExtractFail("analysis failed", cs)
             ELSE IF di.len > 0 THEN ExtractOk(Text("di", di.len), cs)
             ELSE ExtractFail("No text extracted by Document Intelligence", cs)

\* Mutant of ExtractFromPdf: the text of pdfplumber is measured against the
\* worker's threshold of 50 characters.
ExtractFromPdfWorkerThreshold(fast, di, again) ==
    IF ~libs.pdf THEN ExtractWithDocumentIntelligence(di, <<>>)
    ELSE LET cs == <<CallRec("pdfplumber", fast.ok, NoneVal, 0, fast.len)>>
             first == ExtractWithDocumentIntelligence(di, cs)
         IN  IF ~fast.ok THEN first
             ELSE IF fast.len < MinContentLength
                  THEN IF first.ok THEN first
                       ELSE ExtractWithDocumentIntelligence(again, first.calls)
                  ELSE ExtractOk(Text("pdfplumber", fast.len), cs)

\* _extract_from_pdf (lines 253-276); `fast` is the answer of pdfplumber.
\* The fallback of line 271 is made inside the try of line 259: when it
\* raises, the bare except of line 274 makes the call of line 276, whose
\* answer is `again`.
ExtractFromPdf(fast, di, again) ==
    IF ~libs.pdf THEN ExtractWithDocumentIntelligence(di, <<>>)
    ELSE LET cs == <<CallRec("pdfplumber", fast.ok, NoneVal, 0, fast.len)>>
             first == ExtractWithDocumentIntelligence(di, cs)
         IN  IF ~fast.ok THEN first
             ELSE IF fast.len < PdfMinTextLength
                  THEN IF first.ok THEN first
                       ELSE ExtractWithDocumentIntelligence(again, first.calls)
                  ELSE ExtractOk(Text("pdfplumber", fast.len), cs)

\* _extract_from_text_file (lines 297-300); `rd` is the answer of open/read.
ExtractFromTextFile(rd) ==
    LET cs == <<CallRec("read_file", rd.ok, NoneVal, 0, rd.len)>>
    IN  IF rd.ok THEN ExtractOk(Text("file", rd.len), cs)
        ELSE ExtractFail("cannot read file", cs)

\* _extract_from_html (lines 302-313): markup stripped, or raw without bs4.
ExtractFromHtml(rd) ==
    LET cs == <<CallRec("read_file", rd.ok, NoneVal, 0, rd.len)>>
    IN  IF ~rd.ok THEN ExtractFail("cannot read file", cs)
        ELSE IF libs.bs4 THEN ExtractOk(Text("html_text", rd.len), cs)
        ELSE ExtractOk(Text("html_raw", rd.len), cs)

\* No direct call of extract_text is made during a run of the pipeline.
NoExtraction == [pc |-> "idle", file_format |-> NoneVal, ok |-> FALSE,
                 text |-> NoText, msg |-> NoneVal, calls |-> <<>>]
ExtractionOf(f) == [NoExtraction EXCEPT !.pc = "call", !.file_format = f]

\* Mutant of ExtractText: the formats accepted are those of the configuration.
ExtractTextConfigured(file_format, fast, di, again, rd) ==
    IF file_format \notin settings.supported_formats
    THEN ExtractFail("Unsupported format: " \o file_format, <<>>)
    ELSE IF file_format = "pdf" THEN ExtractFromPdf(fast, di, again)
    ELSE IF file_format \in {"docx", "pptx"}
         THEN ExtractWithDocumentIntelligence(di, <<>>)
    ELSE IF file_format \in {"txt", "md"} THEN ExtractFromTextFile(rd)
    ELSE ExtractFromHtml(rd)

\* extract_text (lines 226-251): dispatch on a fixed list of formats.
ExtractText(file_format, fast, di, again, rd) ==
    IF file_format = "pdf" THEN ExtractFromPdf(fast, di, again)
    ELSE IF file_format \in {"docx", "pptx"}
         THEN ExtractWithDocumentIntelligence(di, <<>>)
    ELSE IF file_format \in {"txt", "md"} THEN ExtractFromTextFile(rd)
    ELSE IF file_format = "html" THEN ExtractFromHtml(rd)
    ELSE ExtractFail("Unsupported format: " \o file_format, <<>>)

\* document_processor.extract_text(file_path, file_format) called directly
\* on a constructed DocumentProcessor: it returns the text or raises.
CallExtractText ==
    /\ extraction.pc = "call"
    /\ \E fast \in world.fast, di \in world.di, again \in world.di,
          rd \in world.rd :
         LET x == ExtractText(extraction.file_format, fast, di, again, rd)
         IN  extraction' = [extraction EXCEPT !.pc = "done", !.ok = x.ok,
                                              !.text = x.text, !.msg = x.msg,
                                              !.calls = x.calls]
    /\ UNCHANGED <<inputVars, chunking, indexing, inflight, opc, max_workers, nsub,
                   poolVars, loc, calls, collectorVars>>

\* ---------------------------------------------------- TranslationService
DetectAnswers == {"en", "fr", "raise"}
TranslateAnswers == {"ok", "raise"}

Decision(lang, final, translated, cs) ==
    [detected_lang |-> lang, final_text |-> final,
     translated |-> translated, calls |-> cs]

\* Mutant of DetectAndTranslate: a failed detection is caught on its own and
\* answers "unknown", which then is a language other than English.
DetectAndTranslateUndetected(text, detect, translate) ==
    LET c1 == <<CallRec("detect_language", detect # "raise",
                        IF detect = "raise" THEN NoneVal ELSE detect, 0, 0)>>
        lang == IF detect = "raise" THEN "unknown" ELSE detect
    IN  IF ~settings.translation_enabled
        THEN Decision(lang, text, FALSE, c1)
        ELSE IF lang = "en" /\ ~settings.force_translation
             THEN Decision(lang, text, FALSE, c1)
        ELSE LET c2 == Append(c1, Call("translate_text", translate = "ok"))
             IN  IF translate = "ok"
                 THEN Decision(lang, Translated(text), TRUE, c2)
                 ELSE Decision("unknown", text, FALSE, c2)

\* Mutant of DetectAndTranslate: force_translation is looked at first and
\* overrides translation_enabled.
DetectAndTranslateForced(text, detect, translate) ==
    LET c1 == <<CallRec("detect_language", detect # "raise",
                        IF detect = "raise" THEN NoneVal ELSE detect, 0, 0)>>
    IN  IF detect = "raise" THEN Decision("unknown", text, FALSE, c1)
        ELSE IF ~settings.translation_enabled /\ ~settings.force_translation
             THEN Decision(detect, text, FALSE, c1)
        ELSE IF detect = "en" /\ ~settings.force_translation
             THEN Decision(detect, text, FALSE, c1)
        ELSE LET c2 == Append(c1, Call("translate_text", translate = "ok"))
             IN  IF translate = "ok"
                 THEN Decision(detect, Translated(text), TRUE, c2)
                 ELSE Decision("unknown", text, FALSE, c2)

\* Mutant of DetectAndTranslate: force_translation is not read; English
\* text is never translated.
DetectAndTranslateUnforced(text, detect, translate) ==
    LET c1 == <<CallRec("detect_language", detect # "raise",
                        IF detect = "raise" THEN NoneVal ELSE detect, 0, 0)>>
    IN  IF detect = "raise" THEN Decision("unknown", text, FALSE, c1)
        ELSE IF ~settings.translation_enabled
             THEN Decision(detect, text, FALSE, c1)
        ELSE IF detect = "en"
             THEN Decision(detect, text, FALSE, c1)
        ELSE LET c2 == Append(c1, Call("translate_text", translate = "ok"))
             IN  IF translate = "ok"
                 THEN Decision(detect, Translated(text), TRUE, c2)
                 ELSE Decision("unknown", text, FALSE, c2)

\* Mutant of DetectAndTranslate: when translate_text fails part of the way,
\* what it had translated so far is returned as final_text.
DetectAndTranslatePartial(text, detect, translate) ==
    LET c1 == <<CallRec("detect_language", detect # "raise",
                        IF detect = "raise" THEN NoneVal ELSE detect, 0, 0)>>
    IN  IF detect = "raise" THEN Decision("unknown", text, FALSE, c1)
        ELSE IF ~settings.translation_enabled
             THEN Decision(detect, text, FALSE, c1)
        ELSE IF detect = "en" /\ ~settings.force_translation
             THEN Decision(detect, text, FALSE, c1)
        ELSE LET c2 == Append(c1, Call("translate_text", translate = "ok"))
             IN  IF translate = "ok"
                 THEN Decision(detect, Translated(text), TRUE, c2)
                 ELSE Decision("unknown", Translated(text), FALSE, c2)

\* detect_and_translate (lines 352-383); `translated` is
\* "translated_text is not None" of line 689.
DetectAndTranslate(text, detect, translate) ==
    LET c1 == <<CallRec("detect_language", detect # "raise",
                        IF detect = "raise" THEN NoneVal ELSE detect, 0, 0)>>
    IN  IF detect = "raise" THEN Decision("unknown", text, FALSE, c1)
        ELSE IF ~settings.translation_enabled
             THEN Decision(detect, text, FALSE, c1)
        ELSE IF detect = "en" /\ ~settings.force_translation
             THEN Decision(detect, text, FALSE, c1)
        ELSE LET c2 == Append(c1, Call("translate_text", translate = "ok"))
             IN  IF translate = "ok"
                 THEN Decision(detect, Translated(text), TRUE, c2)
                 ELSE Decision("unknown", text, FALSE, c2)

\* --------------------------------------------------- _create_simple_chunks
\* content.split(): a text is the sequence of its words, a word the number
\* of its characters (at least one).
\* The characters of the words ws[a..b], summed by halves.
RECURSIVE SumOfWords(_, _, _)
SumOfWords(ws, a, b) ==
    IF a > b THEN 0
    ELSE IF a = b THEN ws[a]
    ELSE LET m == (a + b) \div 2
         IN  SumOfWords(ws, a, m) + SumOfWords(ws, m + 1, b)

\* len(' '.join(chunk_words).strip()): the words and one space between two.
JoinedLen(ws) == IF ws = <<>> THEN 0 ELSE SumOfWords(ws, 1, Len(ws)) + Len(ws) - 1

\* words[i:j] for 0 <= i <= j.
Slice(ws, i, j) == SubSeq(ws, i + 1, IF j < Len(ws) THEN j ELSE Len(ws))

\* chunk_size, chunk_overlap and min_chunk_size of processing_settings.
ChunkSettings(cs, ov, mn) == [chunk_size |-> cs, chunk_overlap |-> ov, min_chunk_size |-> mn]
\* The values _create_simple_chunks falls back to (lines 782, 783, 792).
DefaultChunkSettings == ChunkSettings(1000, 100, 50)

\* Mutant of RangeStep: the windows are laid end to end.
RangeStepNoOverlap(cfg) == cfg.chunk_size

\* The step of range(0, len(words), chunk_size - overlap) (line 788).
RangeStep(cfg) == cfg.chunk_size - cfg.chunk_overlap

\* Mutant of KeepChunk: only a window of chunk_size tokens is kept.
KeepChunkFullOnly(chunk_words, cfg) ==
    JoinedLen(chunk_words) >= cfg.min_chunk_size /\ Len(chunk_words) = cfg.chunk_size

\* Mutant of KeepChunk: every window is kept.
KeepChunkAlways(chunk_words, cfg) == TRUE

\* Line 792: the window is kept when its text has min_chunk_size characters.
KeepChunk(chunk_words, cfg) == JoinedLen(chunk_words) >= cfg.min_chunk_size

\* Mutant of ChunkDocument: chunks are numbered by the window they come from.
ChunkDocumentByWindow(chunk_words, chunks, i, cfg) ==
    [content |-> chunk_words, number |-> (i \div RangeStep(cfg)) + 1, start |-> i]

\* Lines 793-797: Document(content, title = "<filename> (chunk <number>)");
\* start is the offset i of the window, which the Document does not keep.
ChunkDocument(chunk_words, chunks, i, cfg) ==
    [content |-> chunk_words, number |-> Len(chunks) + 1, start |-> i]

\* The loop of lines 788-797 from offset i on, chunks being the list so far.
RECURSIVE SimpleChunksFrom(_, _, _, _)
SimpleChunksFrom(words, i, chunks, cfg) ==
    IF i >= Len(words) THEN chunks
    ELSE LET chunk_words == Slice(words, i, i + cfg.chunk_size)
             kept == IF KeepChunk(chunk_words, cfg)
                     THEN Append(chunks, ChunkDocument(chunk_words, chunks, i, cfg))
                     ELSE chunks
         IN  SimpleChunksFrom(words, i + RangeStep(cfg), kept, cfg)

\* _create_simple_chunks (lines 780-799): range() raises ValueError for a
\* step of 0 and is empty for a negative step.
CreateSimpleChunks(words, cfg) ==
    IF RangeStep(cfg) = 0 THEN [ok |-> FALSE, chunks |-> <<>>]
    ELSE IF RangeStep(cfg) < 0 THEN [ok |-> TRUE, chunks |-> <<>>]
    ELSE [ok |-> TRUE, chunks |-> SimpleChunksFrom(words, 0, <<>>, cfg)]

\* No direct call of _create_simple_chunks is made during a run.
NoChunking == [pc |-> "idle", words |-> <<>>, cfg |-> DefaultChunkSettings,
               ok |-> FALSE, chunks |-> <<>>]
ChunkingOf(ws, cfg) == [NoChunking EXCEPT !.pc = "call", !.words = ws, !.cfg = cfg]

\* _create_simple_chunks(content, filename, url) called on its own: it
\* returns the list of chunks or raises.
CallCreateSimpleChunks ==
    /\ chunking.pc = "call"
    /\ LET r == CreateSimpleChunks(chunking.words, chunking.cfg)
       IN  chunking' = [chunking EXCEPT !.pc = "done", !.ok = r.ok,
                                        !.chunks = r.chunks]
    /\ UNCHANGED <<inputVars, extraction, indexing, inflight, opc, max_workers, nsub,
                   poolVars, loc, calls, collectorVars>>

\* ------------------------------------------------------------ the futures
NoOutcome == [kind |-> "none", result |-> NoResult, exc |-> NoneVal]
Returned(r) == [kind |-> "returned", result |-> r, exc |-> NoneVal]
Raised(m) == [kind |-> "raised", result |-> NoResult, exc |-> m]

Running == {i \in Docs : fut[i] = "running"}
Queued == {i \in Docs : fut[i] = "pending"}
Finished == {i \in Docs : fut[i] = "finished"}

\* The locals of a call that has not started, or has returned.
NoChunks == [n |-> 0, embedded |-> FALSE, content |-> NoText]
NoLocals == [pc |-> "none", file_format |-> NoneVal, blob_url |-> FALSE,
             text_content |-> NoText, detected_lang |-> NoneVal,
             final_text |-> NoText, translated |-> FALSE, chunks |-> NoChunks]

\* Mutant of CanStart: a thread per work item, no limit.
CanStartUnbounded(i) ==
    /\ i \in Queued
    /\ \A j \in Queued : i <= j

\* Mutant of CanStart: a thread that has run a work item takes no other.
CanStartNoReuse(i) ==
    /\ i \in Queued
    /\ \A j \in Queued : i <= j
    /\ Cardinality(Running \cup Finished) < max_workers

\* A worker thread takes work items in submission order, one at a time.
CanStart(i) ==
    /\ i \in Queued
    /\ \A j \in Queued : i <= j
    /\ Cardinality(Running) < max_workers

\* The waiter as_completed installs on every future while it iterates.
WaiterInstalled == opc = "collect"

\* Mutant of FinishFuture: a work item that failed is queued once more.
FinishFutureRetrying(i, o) ==
    LET failed == o.kind = "raised" \/ ~o.result.success
    IN  IF failed /\ \A k \in DOMAIN completion : completion[k] # i
        THEN /\ fut' = [fut EXCEPT ![i] = "pending"]
             /\ completion' = Append(completion, i)
             /\ loc' = [loc EXCEPT ![i] = NoLocals]
             /\ UNCHANGED <<outcome, waiter>>
        ELSE /\ fut' = [fut EXCEPT ![i] = "finished"]
             /\ outcome' = [outcome EXCEPT ![i] = o]
             /\ completion' = Append(completion, i)
             /\ waiter' = IF WaiterInstalled THEN Append(waiter, i) ELSE waiter
             /\ loc' = [loc EXCEPT ![i] = NoLocals]

\* Future.set_result / set_exception: the future finishes and tells the
\* waiter; the frame of the call is gone.
FinishFuture(i, o) ==
    /\ fut' = [fut EXCEPT ![i] = "finished"]
    /\ outcome' = [outcome EXCEPT ![i] = o]
    /\ completion' = Append(completion, i)
    /\ waiter' = IF WaiterInstalled THEN Append(waiter, i) ELSE waiter
    /\ loc' = [loc EXCEPT ![i] = NoLocals]

\* ---------------------------------------------- _process_single_document
\* Mutant of FailedResult: error_message is left at its default.
FailedResultNoMessage(i, l, msg) ==
    DocumentProcessingResult(FALSE, PathOf(file_paths[i]),
        IF l.file_format # NoneVal THEN l.file_format ELSE "unknown",
        "unknown", FALSE, 0, NoneVal)

\* Mutant of FailedResult: the language and the translation flag the try
\* block had reached are reported.
FailedResultKeepsLocals(i, l, msg) ==
    DocumentProcessingResult(FALSE, PathOf(file_paths[i]),
        IF l.file_format # NoneVal THEN l.file_format ELSE "unknown",
        IF l.detected_lang # NoneVal THEN l.detected_lang ELSE "unknown",
        l.translated, 0, msg)

\* The except branch (lines 722-733): l are the locals at the raise.
FailedResult(i, l, msg) ==
    DocumentProcessingResult(FALSE, PathOf(file_paths[i]),
        IF l.file_format # NoneVal THEN l.file_format ELSE "unknown",
        "unknown", FALSE, 0, msg)

\* Mutant of SuccessResult: detected_lang and translated kept on self, where
\* a sibling worker that has passed the language step overwrites them.
SuccessResultShared(i, l, indexed_chunks) ==
    LET others == {j \in Running \ {i} : loc[j].detected_lang # NoneVal}
        w == IF others = {} THEN l ELSE loc[CHOOSE j \in others : TRUE]
    IN  DocumentProcessingResult(TRUE, PathOf(file_paths[i]), l.file_format,
            w.detected_lang, w.translated, indexed_chunks, NoneVal)

\* The return of lines 710-720.
SuccessResult(i, l, indexed_chunks) ==
    DocumentProcessingResult(TRUE, PathOf(file_paths[i]), l.file_format,
        l.detected_lang, l.translated, indexed_chunks, NoneVal)

\* Mutant of StageFails: the except branch lets the exception go on.
StageFailsReraise(i, l, msg, cs) ==
    /\ FinishFuture(i, Raised(msg))
    /\ calls' = [calls EXCEPT ![i] = calls[i] \o cs]

\* A stage raised inside the try: the call returns the failed result.
StageFails(i, l, msg, cs) ==
    /\ FinishFuture(i, Returned(FailedResult(i, l, msg)))
    /\ calls' = [calls EXCEPT ![i] = calls[i] \o cs]

\* A stage completed: the call goes on with locals l.
StageDone(i, l, cs) ==
    /\ loc' = [loc EXCEPT ![i] = l]
    /\ calls' = [calls EXCEPT ![i] = calls[i] \o cs]
    /\ UNCHANGED poolVars

\* The work item starts (lines 661-662): Path(file_path) raises TypeError,
\* outside the try, when the element is no path.
Begin(i) ==
    /\ CanStart(i)
    /\ IF file_paths[i].isstr
       THEN /\ fut' = [fut EXCEPT ![i] = "running"]
            /\ loc' = [loc EXCEPT ![i] = [NoLocals EXCEPT !.pc = "validate"]]
            /\ UNCHANGED <<outcome, completion, waiter>>
       ELSE FinishFuture(i, Raised("TypeError"))
    /\ UNCHANGED <<calls, inputVars, unitVars, collectorVars, opc, max_workers, nsub>>

\* Mutant of Validate: the supported_formats check is missing.
ValidateNoCheck(i) ==
    /\ i \in Running /\ loc[i].pc = "validate"
    /\ StageDone(i, [loc[i] EXCEPT !.file_format = FileFormat(PathOf(file_paths[i])),
                                   !.pc = "upload"], <<>>)
    /\ UNCHANGED <<inputVars, unitVars, collectorVars, opc, max_workers, nsub>>

\* Lines 665-674: the format and the supported_formats check.
Validate(i) ==
    /\ i \in Running /\ loc[i].pc = "validate"
    /\ LET file_format == FileFormat(PathOf(file_paths[i]))
           l == [loc[i] EXCEPT !.file_format = file_format, !.pc = "upload"]
       IN  IF file_format \notin settings.supported_formats
           THEN StageFails(i, l, "Unsupported format: " \o file_format, <<>>)
           ELSE StageDone(i, l, <<>>)
    /\ UNCHANGED <<inputVars, unitVars, collectorVars, opc, max_workers, nsub>>

\* Mutant of UploadOriginal: a failed upload is logged and the call goes on.
UploadOriginalBestEffort(i) ==
    /\ i \in Running /\ loc[i].pc = "upload"
    /\ \E ok \in world.upload :
         StageDone(i, [loc[i] EXCEPT !.blob_url = ok, !.pc = "extract"],
                   <<Call("upload_document", ok)>>)
    /\ UNCHANGED <<inputVars, unitVars, collectorVars, opc, max_workers, nsub>>

\* Lines 676-677 and upload_document (lines 410-434).
UploadOriginal(i) ==
    /\ i \in Running /\ loc[i].pc = "upload"
    /\ IF ~clients.container
       THEN StageFails(i, loc[i], "Blob storage client not available", <<>>)
       ELSE \E ok \in world.upload :
              LET cs == <<Call("upload_document", ok)>>
              IN  IF ok
                  THEN StageDone(i, [loc[i] EXCEPT !.blob_url = TRUE,
                                                   !.pc = "extract"], cs)
                  ELSE StageFails(i, loc[i], "upload failed", cs)
    /\ UNCHANGED <<inputVars, unitVars, collectorVars, opc, max_workers, nsub>>

\* Mutant of Extract: the content check of lines 682-683 is missing.
ExtractNoContentCheck(i) ==
    /\ i \in Running /\ loc[i].pc = "extract"
    /\ \E fast \in world.fast, di \in world.di, again \in world.di,
          rd \in world.rd :
         LET x == ExtractText(loc[i].file_format, fast, di, again, rd)
         IN  IF ~x.ok THEN StageFails(i, loc[i], x.msg, x.calls)
             ELSE StageDone(i, [loc[i] EXCEPT !.text_content = x.text,
                                              !.pc = "translate"], x.calls)
    /\ UNCHANGED <<inputVars, unitVars, collectorVars, opc, max_workers, nsub>>

\* Lines 679-683: extract_text and the content check.
Extract(i) ==
    /\ i \in Running /\ loc[i].pc = "extract"
    /\ \E fast \in world.fast, di \in world.di, again \in world.di,
          rd \in world.rd :
         LET x == ExtractText(loc[i].file_format, fast, di, again, rd)
         IN  IF ~x.ok THEN StageFails(i, loc[i], x.msg, x.calls)
             ELSE IF x.text.len < MinContentLength
                  THEN StageFails(i, loc[i],
                                  "Insufficient text content extracted", x.calls)
             ELSE StageDone(i, [loc[i] EXCEPT !.text_content = x.text,
                                              !.pc = "translate"], x.calls)
    /\ UNCHANGED <<inputVars, unitVars, collectorVars, opc, max_workers, nsub>>

\* Mutant of Translate: a failure inside detect_and_translate is not caught
\* there and fails the document.
TranslateFatal(i) ==
    /\ i \in Running /\ loc[i].pc = "translate"
    /\ \E detect \in world.detect, translate \in world.translate :
         LET d == DetectAndTranslate(loc[i].text_content, detect, translate)
         IN  IF \E k \in DOMAIN d.calls : ~d.calls[k].ok
             THEN StageFails(i, loc[i], "translation failed", d.calls)
             ELSE StageDone(i, [loc[i] EXCEPT !.detected_lang = d.detected_lang,
                                              !.final_text = d.final_text,
                                              !.translated = d.translated,
                                              !.pc = IF d.translated
                                                     THEN "upload_translated"
                                                     ELSE "chunk"], d.calls)
    /\ UNCHANGED <<inputVars, unitVars, collectorVars, opc, max_workers, nsub>>

\* Lines 685-689: detect_and_translate never raises.
Translate(i) ==
    /\ i \in Running /\ loc[i].pc = "translate"
    /\ \E detect \in world.detect, translate \in world.translate :
         LET d == DetectAndTranslate(loc[i].text_content, detect, translate)
         IN  StageDone(i, [loc[i] EXCEPT !.detected_lang = d.detected_lang,
                                         !.final_text = d.final_text,
                                         !.translated = d.translated,
                                         !.pc = IF d.translated
                                                THEN "upload_translated"
                                                ELSE "chunk"], d.calls)
    /\ UNCHANGED <<inputVars, unitVars, collectorVars, opc, max_workers, nsub>>

\* Lines 691-695 and upload_translated_content (lines 436-460).
UploadTranslated(i) ==
    /\ i \in Running /\ loc[i].pc = "upload_translated"
    /\ IF ~clients.container
       THEN StageFails(i, loc[i], "Blob storage client not available", <<>>)
       ELSE \E ok \in world.upload_translated :
              LET cs == <<Call("upload_translated_content", ok)>>
              IN  IF ok THEN StageDone(i, [loc[i] EXCEPT !.pc = "chunk"], cs)
                  ELSE StageFails(i, loc[i], "upload failed", cs)
    /\ UNCHANGED <<inputVars, unitVars, collectorVars, opc, max_workers, nsub>>

\* Mutant of ChunkAndEmbed: a failure of chunk_content is not caught.
ChunkAndEmbedFatal(i) ==
    /\ i \in Running /\ loc[i].pc = "chunk"
    /\ \E ok \in world.embed, n \in world.nchunks :
         LET cs == <<CallRec("chunk_content", ok, NoneVal, 0, n)>>
         IN  IF ~ok THEN StageFails(i, loc[i], "embedding failed", cs)
             ELSE StageDone(i, [loc[i] EXCEPT !.chunks = [n |-> n, embedded |-> ok,
                                                    content |-> loc[i].final_text],
                                              !.pc = "index"], cs)
    /\ UNCHANGED <<inputVars, unitVars, collectorVars, opc, max_workers, nsub>>

\* Lines 697-703 and _chunk_and_embed_content (lines 735-778): chunk_content
\* with embeddings, or _create_simple_chunks when that raises.
ChunkAndEmbed(i) ==
    /\ i \in Running /\ loc[i].pc = "chunk"
    /\ \E ok \in world.embed, n \in world.nchunks :
         StageDone(i, [loc[i] EXCEPT !.chunks = [n |-> n, embedded |-> ok,
                                                 content |-> loc[i].final_text],
                                     !.pc = "index"],
                   <<CallRec("chunk_content", ok, NoneVal, 0, n)>>)
    /\ UNCHANGED <<inputVars, unitVars, collectorVars, opc, max_workers, nsub>>

\* index_chunks (lines 503-546): the number of chunks the backend accepted,
\* 0 when it raises, when there is no client or when there are no chunks.
IndexAnswers(n) ==
    {[ok |-> FALSE, n |-> 0] : b \in world.index \ {TRUE}}
        \cup {[ok |-> TRUE, n |-> k] : k \in IF TRUE \in world.index THEN 0..n ELSE {}}

\* What upload_documents can answer for n documents: it raises, or reports
\* k of them as succeeded.
UploadAnswers(n) == {[ok |-> FALSE, n |-> 0]} \cup {[ok |-> TRUE, n |-> k] : k \in 0..n}

\* Mutant of SearchIndexChunks: an exception of upload_documents goes on to
\* the caller.
SearchIndexChunksRaises(search_client, n, a) ==
    IF ~search_client \/ n = 0
    THEN [ok |-> TRUE, count |-> 0, calls |-> <<>>]
    ELSE [ok |-> a.ok, count |-> a.n,
          calls |-> <<CallRec("upload_documents", a.ok, NoneVal, n, a.n)>>]

\* index_chunks (lines 503-546) for a list of n chunks, a the answer of
\* upload_documents: ok is FALSE when the call raises, count is what it
\* returns, calls the backend calls it made.
SearchIndexChunks(search_client, n, a) ==
    IF ~search_client \/ n = 0
    THEN [ok |-> TRUE, count |-> 0, calls |-> <<>>]
    ELSE [ok |-> TRUE, count |-> a.n,
          calls |-> <<CallRec("upload_documents", a.ok, NoneVal, n, a.n)>>]

\* No direct call of index_chunks is made during a run.
NoIndexing == [pc |-> "idle", search_client |-> TRUE, n |-> 0,
               answer |-> [ok |-> TRUE, n |-> 0], ok |-> FALSE, count |-> 0,
               calls |-> <<>>]
IndexingOf(c, n, a) == [NoIndexing EXCEPT !.pc = "call", !.search_client = c, !.n = n, !.answer = a]

\* index_chunks(chunks) called on its own, on a SearchIndexManager with or
\* without a search client.
CallIndexChunks ==
    /\ indexing.pc = "call"
    /\ LET r == SearchIndexChunks(indexing.search_client, indexing.n, indexing.answer)
       IN  indexing' = [indexing EXCEPT !.pc = "done", !.ok = r.ok,
                                        !.count = r.count, !.calls = r.calls]
    /\ UNCHANGED <<inputVars, extraction, chunking, inflight, opc, max_workers,
                   nsub, poolVars, loc, calls, collectorVars>>

\* Mutant of IndexChunks: the result counts the chunks submitted, len(chunks).
IndexChunksCountsSubmitted(i) ==
    /\ i \in Running /\ loc[i].pc = "index"
    /\ LET n == loc[i].chunks.n
       IN  IF ~clients.search \/ n = 0
           THEN /\ FinishFuture(i, Returned(SuccessResult(i, loc[i], 0)))
                /\ UNCHANGED calls
           ELSE \E a \in IndexAnswers(n) :
                  /\ FinishFuture(i, Returned(SuccessResult(i, loc[i], n)))
                  /\ calls' = [calls EXCEPT ![i] =
                        Append(calls[i], CallRec("upload_documents", a.ok, NoneVal, n, a.n))]
    /\ UNCHANGED <<inputVars, unitVars, collectorVars, opc, max_workers, nsub>>

\* Mutant of IndexChunks: a chunk the index did not accept fails the document.
IndexChunksPartialFatal(i) ==
    /\ i \in Running /\ loc[i].pc = "index"
    /\ LET n == loc[i].chunks.n
       IN  IF ~clients.search \/ n = 0
           THEN /\ FinishFuture(i, Returned(SuccessResult(i, loc[i], 0)))
                /\ UNCHANGED calls
           ELSE \E a \in IndexAnswers(n) :
                  /\ FinishFuture(i, Returned(IF a.n < n
                        THEN FailedResult(i, loc[i], "indexing failed")
                        ELSE SuccessResult(i, loc[i], a.n)))
                  /\ calls' = [calls EXCEPT ![i] =
                        Append(calls[i], CallRec("upload_documents", a.ok, NoneVal, n, a.n))]
    /\ UNCHANGED <<inputVars, unitVars, collectorVars, opc, max_workers, nsub>>

\* Mutant of IndexChunks: the chunks are uploaded one call each.
IndexChunksOneByOne(i) ==
    /\ i \in Running /\ loc[i].pc = "index"
    /\ LET n == loc[i].chunks.n
       IN  IF ~clients.search \/ n = 0
           THEN /\ FinishFuture(i, Returned(SuccessResult(i, loc[i], 0)))
                /\ UNCHANGED calls
           ELSE \E a \in IndexAnswers(n) :
                  /\ FinishFuture(i, Returned(SuccessResult(i, loc[i], a.n)))
                  /\ calls' = [calls EXCEPT ![i] = calls[i] \o
                        [k \in 1..n |-> CallRec("upload_documents", a.ok, NoneVal, 1,
                                                IF k <= a.n THEN 1 ELSE 0)]]
    /\ UNCHANGED <<inputVars, unitVars, collectorVars, opc, max_workers, nsub>>

\* Lines 705-720: index_chunks, then the successful return.
IndexChunks(i) ==
    /\ i \in Running /\ loc[i].pc = "index"
    /\ \E a \in IndexAnswers(loc[i].chunks.n) :
         LET r == SearchIndexChunks(clients.search, loc[i].chunks.n, a)
         IN  IF r.ok
             THEN /\ FinishFuture(i, Returned(SuccessResult(i, loc[i], r.count)))
                  /\ calls' = [calls EXCEPT ![i] = calls[i] \o r.calls]
             ELSE StageFails(i, loc[i], "index failed", r.calls)
    /\ UNCHANGED <<inputVars, unitVars, collectorVars, opc, max_workers, nsub>>

\* ------------------------------------------------------- ingest_documents
Reverse(q) == [k \in 1..Len(q) |-> q[Len(q) + 1 - k]]

\* sum(1 for r in results if r.success)
CountSuccess(rs) == Cardinality({k \in DOMAIN rs : rs[k].success})
\* sum(1 for r in results if r.translated)
CountTranslated(rs) == Cardinality({k \in DOMAIN rs : rs[k].translated})

NoReport == [returned |-> FALSE, success |-> FALSE, total_files |-> 0,
             processed_files |-> 0, failed_files |-> 0, translated_files |-> 0,
             total_chunks |-> 0, results |-> <<>>]

\* PipelineResult of lines 627-642.
PipelineResult(rs, chunks) ==
    LET processed_files == CountSuccess(rs)
        failed_files == Len(rs) - processed_files
    IN  [returned |-> TRUE, success |-> failed_files = 0,
         total_files |-> Len(file_paths),
         processed_files |-> processed_files, failed_files |-> failed_files,
         translated_files |-> CountTranslated(rs),
         total_chunks |-> chunks, results |-> rs]

\* Mutant of SummaryRaises: the translation rate is printed unguarded.
SummaryRaisesUnguarded(r) ==
    \/ r.total_files = 0
    \/ r.processed_files = 0

\* _print_pipeline_summary (lines 801-829) divides by total_files, and by
\* processed_files when translated_files > 0.
SummaryRaises(r) ==
    \/ r.total_files = 0
    \/ r.translated_files > 0 /\ r.processed_files = 0

\* Lines 588-597: the locals and the pool.
StartRun ==
    /\ opc = "start"
    /\ opc' = "submit"
    /\ max_workers' = settings.max_concurrent_files
    /\ UNCHANGED <<inputVars, unitVars, nsub, poolVars, loc, calls, collectorVars>>

\* Lines 599-602: one executor.submit per element, in list order.
Submit ==
    /\ opc = "submit" /\ nsub < Len(file_paths)
    /\ nsub' = nsub + 1
    /\ fut' = [fut EXCEPT ![nsub + 1] = "pending"]
    /\ UNCHANGED <<inputVars, unitVars, opc, max_workers, outcome, completion, waiter,
                   loc, calls, collectorVars>>

\* Line 605, as_completed(future_to_file) starts: the futures already
\* finished are put aside as a set, a waiter is installed on all of them.
AsCompletedEnter ==
    /\ opc = "submit" /\ nsub = Len(file_paths)
    /\ opc' = "collect"
    /\ fs_finished' = Finished
    /\ fs_pending' = Docs \ Finished
    /\ snapshot' = Finished
    /\ UNCHANGED <<inputVars, unitVars, max_workers, nsub, poolVars, loc, calls, batch,
                   results, total_chunks, report, yielded>>

\* Mutant of ErrorResult: the file is not named.
ErrorResultUnnamed(i) ==
    DocumentProcessingResult(FALSE, StrPath(<<File("unknown", "")>>), "unknown",
                             "unknown", FALSE, 0, outcome[i].exc)

\* Lines 616-623: the result listed for a future whose result() raises.
ErrorResult(i) ==
    DocumentProcessingResult(FALSE, file_paths[i], "unknown", "unknown",
                             FALSE, 0, outcome[i].exc)

\* Mutant of CollectBody: the except branch logs and appends nothing.
CollectBodyDropsRaised(i) ==
    /\ yielded' = Append(yielded, i)
    /\ IF outcome[i].kind = "returned"
       THEN /\ results' = Append(results, outcome[i].result)
            /\ total_chunks' = total_chunks + outcome[i].result.chunks_count
       ELSE UNCHANGED <<results, total_chunks>>

\* Mutant of CollectBody: the count is stored, not added.
CollectBodyOverwrites(i) ==
    /\ yielded' = Append(yielded, i)
    /\ IF outcome[i].kind = "returned"
       THEN /\ results' = Append(results, outcome[i].result)
            /\ total_chunks' = outcome[i].result.chunks_count
       ELSE /\ results' = Append(results, ErrorResult(i))
            /\ UNCHANGED total_chunks

\* Lines 606-625, the body of the loop for the future as_completed yields.
CollectBody(i) ==
    /\ yielded' = Append(yielded, i)
    /\ IF outcome[i].kind = "returned"
       THEN /\ results' = Append(results, outcome[i].result)
            /\ total_chunks' = total_chunks + outcome[i].result.chunks_count
       ELSE /\ results' = Append(results, ErrorResult(i))
            /\ UNCHANGED total_chunks

\* as_completed yields the futures that had finished before it started, in
\* the iteration order of a set.
YieldFinished ==
    /\ opc = "collect"
    /\ \E i \in fs_finished :
         /\ fs_finished' = fs_finished \ {i}
         /\ CollectBody(i)
    /\ UNCHANGED <<inputVars, unitVars, opc, max_workers, nsub, poolVars, loc, calls,
                   fs_pending, batch, report, snapshot>>

\* Mutant of TakeBatch: the list is not reversed.
TakeBatchNoReverse ==
    /\ opc = "collect"
    /\ fs_finished = {} /\ batch = <<>> /\ fs_pending # {}
    /\ waiter # <<>>
    /\ batch' = waiter
    /\ waiter' = <<>>
    /\ UNCHANGED <<inputVars, unitVars, opc, max_workers, nsub, fut, outcome, completion,
                   loc, calls, fs_finished, fs_pending, results, total_chunks,
                   report, yielded, snapshot>>

\* as_completed wakes up: it takes waiter.finished_futures and reverses it,
\* because the futures are then yielded from the end of the list.
TakeBatch ==
    /\ opc = "collect"
    /\ fs_finished = {} /\ batch = <<>> /\ fs_pending # {}
    /\ waiter # <<>>
    /\ batch' = Reverse(waiter)
    /\ waiter' = <<>>
    /\ UNCHANGED <<inputVars, unitVars, opc, max_workers, nsub, fut, outcome, completion,
                   loc, calls, fs_finished, fs_pending, results, total_chunks,
                   report, yielded, snapshot>>

\* as_completed yields the last future of the list it took.
YieldBatch ==
    /\ opc = "collect"
    /\ fs_finished = {} /\ batch # <<>>
    /\ LET i == batch[Len(batch)]
       IN  /\ batch' = SubSeq(batch, 1, Len(batch) - 1)
           /\ fs_pending' = fs_pending \ {i}
           /\ CollectBody(i)
    /\ UNCHANGED <<inputVars, unitVars, opc, max_workers, nsub, poolVars, loc, calls,
                   fs_finished, report, snapshot>>

\* Mutant of ExitPool: only the futures already finished are collected and
\* the pool is shut down with wait=False.
ExitPoolNoWait ==
    /\ opc = "collect"
    /\ fs_finished = {} /\ batch = <<>>
    /\ opc' = "stats"
    /\ UNCHANGED <<inputVars, unitVars, max_workers, nsub, poolVars, loc, calls,
                   collectorVars>>

\* as_completed is exhausted and the with block ends: shutdown(wait=True)
\* returns when no work item is queued or running.
ExitPool ==
    /\ opc = "collect"
    /\ fs_finished = {} /\ batch = <<>> /\ fs_pending = {}
    /\ Queued = {} /\ Running = {}
    /\ opc' = "stats"
    /\ UNCHANGED <<inputVars, unitVars, max_workers, nsub, poolVars, loc, calls,
                   collectorVars>>

\* Lines 627-647: the statistics, the summary, the return.
ProduceReport ==
    /\ opc = "stats"
    /\ LET r == PipelineResult(results, total_chunks)
       IN  IF SummaryRaises(r)
           THEN opc' = "raised" /\ UNCHANGED report
           ELSE opc' = "returned" /\ report' = r
    /\ UNCHANGED <<inputVars, unitVars, max_workers, nsub, poolVars, loc, calls,
                   fs_finished, fs_pending, batch, results, total_chunks,
                   yielded, snapshot>>

\* The caller aborts: KeyboardInterrupt is raised in the thread that runs
\* ingest_documents while it is inside the with block (lines 597-625); the
\* threads of the pool do not see it.
Interrupt ==
    /\ opc \in {"submit", "collect"}
    /\ opc' = "aborting"
    /\ inflight' = Queued \cup Running
    /\ UNCHANGED <<inputVars, extraction, chunking, indexing, max_workers, nsub, poolVars,
                   loc, calls, collectorVars>>

\* The exception leaves the with block: ThreadPoolExecutor.__exit__ calls
\* shutdown(wait=True), which returns when every work item submitted has
\* run; then the exception reaches main (lines 914-916), which exits.
ShutdownInterrupted ==
    /\ opc = "aborting"
    /\ Queued = {} /\ Running = {}
    /\ opc' = "interrupted"
    /\ UNCHANGED <<inputVars, unitVars, max_workers, nsub, poolVars, loc, calls,
                   collectorVars>>

\* ---------------------------------------------------------- specification
Settings(mw, te, ft, sf) ==
    [max_concurrent_files |-> mw, translation_enabled |-> te,
     force_translation |-> ft, supported_formats |-> sf]

\* "processing_settings" of _create_default_config (lines 176-184).
DefaultFormats == {"pdf", "docx", "txt", "md", "html"}

\* Every answer the collaborators can give.
FullWorld ==
    [upload |-> BOOLEAN, fast |-> BackendAnswers, di |-> BackendAnswers,
     rd |-> BackendAnswers, detect |-> DetectAnswers,
     translate |-> TranslateAnswers, upload_translated |-> BOOLEAN,
     embed |-> BOOLEAN, nchunks |-> 0..MaxDocChunks, index |-> BOOLEAN]

\* The answers drawn in a batch: storage up or down, a pdf with or without
\* a text layer while the analysis backend is down, English or French text,
\* an index that accepts all, some or none of the chunks.
BatchWorld ==
    [upload |-> BOOLEAN, fast |-> {Returns(10), Returns(120)}, di |-> {Raises},
     rd |-> {Returns(120)}, detect |-> {"en", "fr"}, translate |-> {"ok"},
     upload_translated |-> {TRUE}, embed |-> {TRUE},
     nchunks |-> {MaxChunks}, index |-> {TRUE}]

\* "./a.pdf", "c.zip", and an element that is no path.
BatchPaths == {StrPath(<<Dot, File("a", "pdf")>>),
               StrPath(<<File("c", "zip")>>),
               NotAStr}

InitRun ==
    /\ opc = "start" /\ max_workers = 0 /\ nsub = 0
    /\ fut = [i \in Docs |-> "unsubmitted"]
    /\ outcome = [i \in Docs |-> NoOutcome]
    /\ loc = [i \in Docs |-> NoLocals]
    /\ calls = [i \in Docs |-> <<>>]
    /\ fs_finished = {} /\ fs_pending = {} /\ waiter = <<>> /\ batch = <<>>
    /\ results = <<>> /\ total_chunks = 0 /\ report = NoReport
    /\ completion = <<>> /\ yielded = <<>> /\ snapshot = {}
    /\ inflight = {}

\* A pipeline that was constructed has all its clients (lines 219-224,
\* 394-402, 471-481, 572).
AllClients == [container |-> TRUE, doc_intelligence |-> TRUE, search |-> TRUE]

\* A batch of up to MaxDocs documents under the default settings.
Init ==
    /\ file_paths \in UNION {[1..n -> BatchPaths] : n \in 0..MaxDocs}
    /\ settings \in {Settings(mw, TRUE, FALSE, DefaultFormats) : mw \in 1..MaxPool}
    /\ libs = [pdf |-> TRUE, bs4 |-> TRUE]
    /\ clients = AllClients
    /\ world = BatchWorld
    /\ extraction = NoExtraction
    /\ indexing = NoIndexing
    /\ chunking = NoChunking
    /\ InitRun

\* The formats of the scenario "zip with supportedFormats = {pdf, docx, txt}".
ScenarioFormats == {"pdf", "docx", "txt"}

\* "a.pdf", "./b.txt", "D.PDF", "e.docx", "f.html", "c.zip", "README", and
\* an element that is no path.
DocPaths == {StrPath(<<File("a", "pdf")>>),
             StrPath(<<Dot, File("b", "txt")>>),
             StrPath(<<File("D", "PDF")>>),
             StrPath(<<File("e", "docx")>>),
             StrPath(<<File("f", "html")>>),
             StrPath(<<File("c", "zip")>>),
             StrPath(<<File("README", "")>>),
             NotAStr}

\* One document, every setting, every answer of every collaborator.
InitDoc ==
    /\ file_paths \in [1..1 -> DocPaths]
    /\ settings \in {Settings(1, te, ft, sf) :
                        te \in BOOLEAN, ft \in BOOLEAN,
                        sf \in {DefaultFormats, ScenarioFormats}}
    /\ libs \in [pdf : BOOLEAN, bs4 : BOOLEAN]
    /\ clients = AllClients
    /\ world = FullWorld
    /\ extraction = NoExtraction
    /\ indexing = NoIndexing
    /\ chunking = NoChunking
    /\ InitRun

WorkerBegin == \E i \in Docs : Begin(i)
WorkerValidate == \E i \in Docs : Validate(i)
WorkerUploadOriginal == \E i \in Docs : UploadOriginal(i)
WorkerExtract == \E i \in Docs : Extract(i)
WorkerTranslate == \E i \in Docs : Translate(i)
WorkerUploadTranslated == \E i \in Docs : UploadTranslated(i)
WorkerChunkAndEmbed == \E i \in Docs : ChunkAndEmbed(i)
WorkerIndexChunks == \E i \in Docs : IndexChunks(i)

Next ==
    \/ StartRun
    \/ Submit
    \/ AsCompletedEnter
    \/ YieldFinished
    \/ TakeBatch
    \/ YieldBatch
    \/ ExitPool
    \/ ProduceReport
    \/ WorkerBegin
    \/ WorkerValidate
    \/ WorkerUploadOriginal
    \/ WorkerExtract
    \/ WorkerTranslate
    \/ WorkerUploadTranslated
    \/ WorkerChunkAndEmbed
    \/ WorkerIndexChunks

Spec == Init /\ [][Next]_vars

SpecDoc == InitDoc /\ [][Next]_vars

\* The thread that runs ingest_documents (lines 588-647).
MainThread ==
    \/ StartRun \/ Submit \/ AsCompletedEnter \/ YieldFinished \/ TakeBatch
    \/ YieldBatch \/ ExitPool \/ ProduceReport

\* The work item of document i, on whichever thread of the pool runs it
\* (lines 649-733).
WorkItem(i) ==
    \/ Begin(i) \/ Validate(i) \/ UploadOriginal(i) \/ Extract(i)
    \/ Translate(i) \/ UploadTranslated(i) \/ ChunkAndEmbed(i) \/ IndexChunks(i)

\* The run under a fair scheduler: the main thread is not starved, an idle
\* thread of the pool takes the next queued work item, and every call a
\* work item makes comes back, returning or raising.
Fairness ==
    /\ WF_vars(MainThread)
    /\ \A i \in 1..MaxDocs : WF_vars(WorkItem(i))

\* Collaborators that always answer, and answer well: a pdf with a text
\* layer in French, translated, chunked and indexed whole.
FairWorld ==
    [upload |-> {TRUE}, fast |-> {Returns(120)}, di |-> {Raises},
     rd |-> {Returns(120)}, detect |-> {"fr"}, translate |-> {"ok"},
     upload_translated |-> {TRUE}, embed |-> {TRUE},
     nchunks |-> {MaxChunks}, index |-> {TRUE}]

\* "./a.pdf", which goes through every stage, and "c.zip", which fails.
FairPaths == {StrPath(<<Dot, File("a", "pdf")>>), StrPath(<<File("c", "zip")>>)}

\* A batch of up to MaxDocs documents, pools of one thread and more.
InitFair ==
    /\ file_paths \in UNION {[1..n -> FairPaths] : n \in 0..MaxDocs}
    /\ settings \in {Settings(mw, TRUE, FALSE, DefaultFormats) : mw \in 1..MaxPool}
    /\ libs = [pdf |-> TRUE, bs4 |-> TRUE]
    /\ clients = AllClients
    /\ world = FairWorld
    /\ extraction = NoExtraction
    /\ indexing = NoIndexing
    /\ chunking = NoChunking
    /\ InitRun

SpecFair == InitFair /\ [][Next]_vars /\ Fairness

\* A supported_formats list with a format extract_text has no branch for.
CustomFormats == {"pdf", "txt", "csv"}
\* The file_format arguments of the direct calls.
FormatArgs == FormatTags \cup {"csv", "zip", ""}

\* One direct call of extract_text, for every format, under every
\* configuration and every answer of the backends; no run is started.
InitExtract ==
    /\ file_paths = <<>>
    /\ settings \in {Settings(1, TRUE, FALSE, sf) :
                        sf \in {DefaultFormats, ScenarioFormats, CustomFormats}}
    /\ libs \in [pdf : BOOLEAN, bs4 : BOOLEAN]
    /\ clients = AllClients
    /\ world = FullWorld
    /\ extraction \in {ExtractionOf(f) : f \in FormatArgs}
    /\ chunking = NoChunking
    /\ indexing = NoIndexing
    /\ InitRun

NextExtract == CallExtractText

SpecExtract == InitExtract /\ [][NextExtract]_vars

\* The texts of up to MaxWords words of up to MaxWordLen characters.
SmallTexts == UNION {[1..n -> 1..MaxWordLen] : n \in 0..MaxWords}
\* Every chunk_size up to MaxChunkSize, with every overlap up to chunk_size
\* and every min_chunk_size up to MaxMinChunkSize.
SmallChunkSettings ==
    {ChunkSettings(cs, ov, mn) : cs \in 1..MaxChunkSize, ov \in 0..MaxChunkSize,
                                 mn \in 0..MaxMinChunkSize}
\* A text of 2500 one-letter words.
LongText == [k \in 1..2500 |-> 1]

\* One direct call of _create_simple_chunks: every small text under every
\* small configuration, and the long text under the default configuration.
InitChunk ==
    /\ file_paths = <<>>
    /\ settings = Settings(1, TRUE, FALSE, DefaultFormats)
    /\ libs = [pdf |-> TRUE, bs4 |-> TRUE]
    /\ clients = AllClients
    /\ world = FullWorld
    /\ extraction = NoExtraction
    /\ indexing = NoIndexing
    /\ chunking \in {ChunkingOf(ws, cfg) : ws \in SmallTexts, cfg \in SmallChunkSettings}
                        \cup {ChunkingOf(LongText, DefaultChunkSettings)}
    /\ InitRun

NextChunk == CallCreateSimpleChunks

SpecChunk == InitChunk /\ [][NextChunk]_vars

\* Every stage before the index succeeds; chunking makes no chunk or some,
\* the index backend raises or accepts any number of them.
IndexWorld == [FairWorld EXCEPT !.nchunks = 0..MaxDocChunks, !.index = BOOLEAN]

\* One document that reaches index_chunks, and next to it one direct call
\* of index_chunks with or without a search client.
InitIndex ==
    /\ file_paths = <<StrPath(<<Dot, File("a", "pdf")>>)>>
    /\ settings = Settings(1, TRUE, FALSE, DefaultFormats)
    /\ libs = [pdf |-> TRUE, bs4 |-> TRUE]
    /\ clients = AllClients
    /\ world = IndexWorld
    /\ extraction = NoExtraction /\ chunking = NoChunking
    /\ indexing \in UNION {{IndexingOf(c, n, a) : c \in BOOLEAN, a \in UploadAnswers(n)} :
                                n \in 0..MaxDocChunks}
    /\ InitRun

NextIndex == Next \/ CallIndexChunks

SpecIndex == InitIndex /\ [][NextIndex]_vars

\* The answers drawn in a run the caller may abort: every stage succeeds,
\* a document makes several chunks.
AbortWorld == [FairWorld EXCEPT !.nchunks = {MaxDocChunks}]
\* "./a.pdf" and "c.zip".
AbortPaths == {StrPath(<<Dot, File("a", "pdf")>>), StrPath(<<File("c", "zip")>>)}

\* A batch as in Init, in a run the caller may abort.
InitAbort ==
    /\ file_paths \in UNION {[1..n -> AbortPaths] : n \in 0..MaxDocs}
    /\ settings \in {Settings(mw, TRUE, FALSE, DefaultFormats) : mw \in 1..MaxPool}
    /\ libs = [pdf |-> TRUE, bs4 |-> TRUE]
    /\ clients = AllClients
    /\ world = AbortWorld
    /\ extraction = NoExtraction
    /\ indexing = NoIndexing
    /\ chunking = NoChunking
    /\ InitRun

NextAbort == Next \/ Interrupt \/ ShutdownInterrupted

SpecAbort == InitAbort /\ [][NextAbort]_vars

\* --------------------------------------------------- reading the history
\* What document i went through, read from its own calls alone.
TextSources == {"pdfplumber", "begin_analyze_document", "read_file"}
OwnTexts(i) == SelectSeq(calls[i], LAMBDA c : c.call \in TextSources)
OwnFailed(i, name) == \E k \in DOMAIN calls[i] :
                          calls[i][k].call = name /\ ~calls[i][k].ok
OwnOk(i, name) == \E k \in DOMAIN calls[i] :
                      calls[i][k].call = name /\ calls[i][k].ok
OwnFirst(i, name) == CallsNamed(i, name)[1]

OwnFormat(i) == FileFormat(PathOf(file_paths[i]))
Unsupported(i) ==
    file_paths[i].isstr /\ OwnFormat(i) \notin settings.supported_formats

\* The description of the error of the first stage of i that raised.
OwnError(i) ==
    LET ts == OwnTexts(i)
        t == ts[Len(ts)]
    IN  IF Unsupported(i) THEN "Unsupported format: " \o OwnFormat(i)
        ELSE IF OwnFailed(i, "upload_document") THEN "upload failed"
        ELSE IF ts # <<>> /\ ~t.ok /\ t.call = "read_file" THEN "cannot read file"
        ELSE IF ts # <<>> /\ ~t.ok THEN "analysis failed"
        ELSE IF ts # <<>> /\ t.n = 0 /\ t.call = "begin_analyze_document"
             THEN "No text extracted by Document Intelligence"
        ELSE IF ts # <<>> /\ t.n < MinContentLength
             THEN "Insufficient text content extracted"
        ELSE IF OwnFailed(i, "upload_translated_content") THEN "upload failed"
        ELSE NoneVal

\* The outcome the own stages of i determine.
OwnSuccess(i) == OwnError(i) = NoneVal
OwnChunksCount(i) ==
    IF OwnSuccess(i) /\ Called(i, "upload_documents")
    THEN OwnFirst(i, "upload_documents").n ELSE 0
OwnTranslated(i) == OwnSuccess(i) /\ OwnOk(i, "translate_text")
OwnLanguage(i) ==
    IF OwnSuccess(i) /\ OwnOk(i, "detect_language")
                     /\ ~OwnFailed(i, "translate_text")
    THEN OwnFirst(i, "detect_language").lang ELSE "unknown"

InReport == report.returned
PosIn(q, x) == CHOOSE k \in DOMAIN q : q[k] = x
\* How often p is among the elements of q.
Times(q, p) == Cardinality({k \in DOMAIN q : q[k] = p})
ListedFiles == [k \in DOMAIN report.results |-> report.results[k].original_file]

\* ------------------------------------------------------------------ claims

\* C1: Isolation. Under every interleaving of the workers of a batch, the
\* outcome of a document (success, chunks_count, translated,
\* detected_language) is the one its own stages determine, whatever happens
\* to the other documents; a future raises only for an element that is no
\* path.
C1_Isolation ==
    \A i \in Finished :
        IF ~file_paths[i].isstr THEN outcome[i].kind = "raised"
        ELSE /\ outcome[i].kind = "returned"
             /\ outcome[i].result.success = OwnSuccess(i)
             /\ outcome[i].result.chunks_count = OwnChunksCount(i)
             /\ outcome[i].result.translated = OwnTranslated(i)
             /\ outcome[i].result.detected_language = OwnLanguage(i)

\* A document succeeded in a batch in which another failed extraction.
C1_Witness ==
    \E i \in Finished, j \in Finished :
        /\ i # j
        /\ outcome[i].kind = "returned" /\ outcome[i].result.success
        /\ OwnFailed(j, "begin_analyze_document")
        /\ outcome[j].kind = "returned" /\ ~outcome[j].result.success

\* C2: No stage exception escapes _process_single_document. When a stage of
\* a document raised, the call returned a result with success = FALSE that
\* carries the description of that error; a call raises only before its
\* first stage, for an element that is no path.
C2_StageErrorsReturned ==
    \A i \in Finished :
        /\ file_paths[i].isstr => outcome[i].kind = "returned"
        /\ outcome[i].kind = "raised" => ~file_paths[i].isstr /\ calls[i] = <<>>
        /\ file_paths[i].isstr /\ OwnError(i) # NoneVal =>
              /\ ~outcome[i].result.success
              /\ outcome[i].result.error_message = OwnError(i)

\* The upload of the translated text raised and the call returned a failure.
C2_Witness ==
    \E i \in Finished :
        /\ OwnFailed(i, "upload_translated_content")
        /\ outcome[i].kind = "returned" /\ ~outcome[i].result.success

\* C3: In every report, processed_files + failed_files = total_files = the
\* number of input documents.
C3_CountsAddUp ==
    InReport =>
        /\ report.processed_files + report.failed_files = report.total_files
        /\ report.total_files = Len(file_paths)

\* A report with both successful and failed documents.
C3_Witness ==
    InReport /\ report.processed_files > 0 /\ report.failed_files > 0

ListedAs(p) == IF p.isstr THEN PathOf(p) ELSE p

C6_Barrier ==
    opc \in {"stats", "returned", "raised"} =>
        /\ nsub = Len(file_paths)
        /\ \A i \in Docs : fut[i] = "finished" /\ outcome[i].kind # "none"

\* The statistics are due and no future had finished when collection began.
C6_Witness ==
    opc = "stats" /\ Len(file_paths) >= 2 /\ snapshot = {}

\* C7: Bounded concurrency. At most max_concurrent_files calls of the worker
\* run at once, and the size the pool was created with is that value for
\* the whole run.
C7_BoundedConcurrency ==
    /\ Cardinality(Running) <= settings.max_concurrent_files
    /\ opc # "start" => max_workers = settings.max_concurrent_files

\* The pool is full and a document waits in the queue.
C7_Witness ==
    /\ max_workers >= 1
    /\ Cardinality(Running) = max_workers
    /\ Queued # {}

\* Is the future yielded a-th finished before the one yielded b-th?
FinishedBefore(a, b) ==
    PosIn(completion, yielded[a]) < PosIn(completion, yielded[b])

\* C8 as stated: the results of two documents whose workers returned are in
\* the order in which the workers completed, also when both completed
\* before as_completed started.
C8_CompletionOrder ==
    \A a \in DOMAIN yielded, b \in DOMAIN yielded :
        /\ outcome[yielded[a]].kind = "returned"
        /\ outcome[yielded[b]].kind = "returned"
        /\ FinishedBefore(a, b)
        => a < b

\* C8 amended: a future is yielded after every future that finished before
\* it, provided it finished after as_completed started; those that had
\* finished by then come first, in no particular order.
C8_CompletionOrderAfterEntry ==
    \A a \in DOMAIN yielded, b \in DOMAIN yielded :
        /\ FinishedBefore(a, b) /\ yielded[b] \notin snapshot => a < b
        /\ yielded[a] \in snapshot /\ yielded[b] \notin snapshot => a < b

\* Two futures that finished after as_completed started have been yielded.
C8_Witness ==
    /\ Len(yielded) >= 2
    /\ yielded[1] \notin snapshot /\ yielded[2] \notin snapshot

\* C9: A document whose format is not in supported_formats makes no
\* collaborator call at all, and its call returns success = FALSE with the
\* message of UnsupportedFormatError.
C9_UnsupportedFormat ==
    \A i \in Docs :
        Unsupported(i) =>
            /\ calls[i] = <<>>
            /\ i \in Finished =>
                  /\ outcome[i].kind = "returned"
                  /\ ~outcome[i].result.success
                  /\ outcome[i].result.error_message =
                         "Unsupported format: " \o OwnFormat(i)

\* "c.zip" has been rejected under supported_formats = {pdf, docx, txt}.
C9_Witness ==
    \E i \in Finished :
        /\ settings.supported_formats = ScenarioFormats
        /\ OwnFormat(i) = "zip"
        /\ ~outcome[i].result.success

\* C10: When the upload of the original document fails, the call returns
\* success = FALSE and that upload is the only collaborator call made for
\* the document.
C10_OriginalUploadFatal ==
    \A i \in Docs :
        OwnFailed(i, "upload_document") =>
            /\ calls[i] = <<Call("upload_document", FALSE)>>
            /\ i \in Finished
            /\ outcome[i].kind = "returned"
            /\ ~outcome[i].result.success

\* The original upload of a supported document has failed.
C10_Witness ==
    \E i \in Finished :
        /\ OwnFailed(i, "upload_document")
        /\ ~outcome[i].result.success

\* C11: The upload of the translated text is best-effort. When
\* upload_translated_content fails for a translated document, the document
\* is still chunked and indexed and its call returns success = TRUE.
C11_TranslatedUploadBestEffort ==
    \A i \in Finished :
        OwnFailed(i, "upload_translated_content") =>
            /\ outcome[i].kind = "returned"
            /\ outcome[i].result.success
            /\ Called(i, "chunk_content")

\* The calls document i made to the analysis backend.
OwnAnalyses(i) == CallsNamed(i, "begin_analyze_document")
\* pdfplumber answered for i with text shorter than the threshold of line 270.
ShortFastPath(i) ==
    \E k \in DOMAIN calls[i] :
        /\ calls[i][k].call = "pdfplumber" /\ calls[i][k].ok
        /\ calls[i][k].n < PdfMinTextLength

\* C12: For a pdf whose fast-path extraction returns text below the
\* threshold, begin_analyze_document is called exactly once for the
\* document, whether that call succeeds or fails.
C12_AnalysisInvokedOnce ==
    \A i \in Docs : ShortFastPath(i) => Len(OwnAnalyses(i)) = 1

\* The formats extract_text has a branch for.
ExtractFormats == {"pdf", "docx", "pptx", "txt", "md", "html"}
UnsupportedFormatError(f) == "Unsupported format: " \o f
ExtractionDone == extraction.pc = "done"
ExtractionFormat == extraction.file_format

\* C13 as stated: extract_text raises UnsupportedFormatError whenever the
\* format is not in the configured supported_formats, and only then.
C13_ConfiguredFormats ==
    ExtractionDone =>
        (ExtractionFormat \notin settings.supported_formats
            <=> /\ ~extraction.ok
                /\ extraction.msg = UnsupportedFormatError(ExtractionFormat))

\* C13 amended: extract_text raises UnsupportedFormatError exactly when the
\* format is none of pdf, docx, pptx, txt, md, html, whatever
\* supported_formats is, and then without calling any backend.
C13_FixedFormats ==
    ExtractionDone =>
        /\ ExtractionFormat \notin ExtractFormats
              <=> /\ ~extraction.ok
                  /\ extraction.msg = UnsupportedFormatError(ExtractionFormat)
        /\ ExtractionFormat \notin ExtractFormats => extraction.calls = <<>>

\* extract_text returned the text of a pptx, which the configuration does
\* not list.
C13_Witness ==
    /\ ExtractionDone /\ extraction.ok
    /\ ExtractionFormat = "pptx"
    /\ ExtractionFormat \notin settings.supported_formats

\* Document i is past detect_and_translate and its call has not returned.
PastDecision(i) == i \in Running /\ loc[i].pc \in {"upload_translated", "chunk", "index"}
\* The text handed to detect_and_translate came back as final_text, untouched.
TextUnchanged(i) == loc[i].final_text = loc[i].text_content
\* The call for i returned a successful result.
Succeeded(i) == i \in Finished /\ outcome[i].kind = "returned" /\ outcome[i].result.success

\* C14: When translation is required and translate_text fails,
\* detect_and_translate does not raise: it returns the original text, no
\* translated text and the language "unknown", and the document goes on to
\* chunking and indexing and succeeds.
C14_TranslationDegraded ==
    \A i \in Docs :
        OwnFailed(i, "translate_text") =>
            /\ i \in Running \cup Finished
            /\ ~Called(i, "upload_translated_content")
            /\ i \in Running =>
                  /\ loc[i].pc \in {"chunk", "index"}
                  /\ TextUnchanged(i)
                  /\ ~loc[i].translated
                  /\ loc[i].detected_lang = "unknown"
            /\ i \in Finished =>
                  /\ Succeeded(i)
                  /\ Called(i, "chunk_content")
                  /\ ~outcome[i].result.translated
                  /\ outcome[i].result.detected_language = "unknown"

\* French text whose translation failed has been indexed.
C14_Witness ==
    \E i \in Docs :
        /\ OwnFailed(i, "translate_text")
        /\ OwnFirst(i, "detect_language").lang = "fr"
        /\ Succeeded(i)
        /\ Called(i, "upload_documents")

\* C15: When detect_language fails, detect_and_translate answers the
\* language "unknown" and the original text, untranslated; translate_text
\* is not called, whatever translation_enabled and force_translation are,
\* and the document goes on and succeeds.
C15_DetectionFailure ==
    \A i \in Docs :
        OwnFailed(i, "detect_language") =>
            /\ ~Called(i, "translate_text")
            /\ ~Called(i, "upload_translated_content")
            /\ i \in Running \cup Finished
            /\ i \in Running =>
                  /\ loc[i].pc \in {"chunk", "index"}
                  /\ TextUnchanged(i)
                  /\ ~loc[i].translated
                  /\ loc[i].detected_lang = "unknown"
            /\ i \in Finished =>
                  /\ Succeeded(i)
                  /\ ~outcome[i].result.translated
                  /\ outcome[i].result.detected_language = "unknown"

\* Detection failed under force_translation and the document succeeded.
C15_Witness ==
    \E i \in Docs :
        /\ OwnFailed(i, "detect_language")
        /\ settings.translation_enabled /\ settings.force_translation
        /\ Succeeded(i)

\* The language detect_language answered for i.
OwnDetected(i) == OwnFirst(i, "detect_language").lang

\* C16: Translation skip. With translation_enabled = FALSE, for every text
\* and every detected language, whatever force_translation is,
\* detect_and_translate returns the text it was given with the detected
\* language and no translated text, and translate_text is not called.
C16_TranslationSkip ==
    \A i \in Docs :
        ~settings.translation_enabled =>
            /\ ~Called(i, "translate_text")
            /\ PastDecision(i) =>
                  /\ loc[i].pc # "upload_translated"
                  /\ TextUnchanged(i)
                  /\ ~loc[i].translated
                  /\ OwnOk(i, "detect_language") =>
                         loc[i].detected_lang = OwnDetected(i)
            /\ i \in Finished /\ outcome[i].kind = "returned" =>
                  ~outcome[i].result.translated

\* French text went untranslated to chunking although force_translation
\* is set.
C16_Witness ==
    \E i \in Docs :
        /\ ~settings.translation_enabled /\ settings.force_translation
        /\ PastDecision(i)
        /\ OwnOk(i, "detect_language") /\ OwnDetected(i) = "fr"
        /\ loc[i].pc = "chunk"

\* The language documents are translated to (lines 373 and 377).
TargetLanguage == "en"

\* C17: With translation_enabled = TRUE and a language L detected,
\* translate_text is called if and only if L is not the target language or
\* force_translation is set; when L is the target language and
\* force_translation is not set, the original text is returned untranslated
\* with the language L.
C17_TranslateWhenNeeded ==
    \A i \in Docs :
        settings.translation_enabled /\ OwnOk(i, "detect_language") =>
            /\ Called(i, "translate_text")
                  <=> (OwnDetected(i) # TargetLanguage \/ settings.force_translation)
            /\ Len(CallsNamed(i, "translate_text")) <= 1
            /\ OwnDetected(i) = TargetLanguage /\ ~settings.force_translation =>
                  /\ PastDecision(i) =>
                        /\ loc[i].pc # "upload_translated"
                        /\ TextUnchanged(i)
                        /\ ~loc[i].translated
                        /\ loc[i].detected_lang = OwnDetected(i)
                  /\ Succeeded(i) =>
                        /\ ~outcome[i].result.translated
                        /\ outcome[i].result.detected_language = OwnDetected(i)

\* English text has been translated under force_translation and indexed.
C17_Witness ==
    \E i \in Docs :
        /\ settings.translation_enabled /\ settings.force_translation
        /\ OwnOk(i, "detect_language") /\ OwnDetected(i) = TargetLanguage
        /\ OwnOk(i, "translate_text")
        /\ Succeeded(i) /\ outcome[i].result.translated

\* The text the last extraction backend of i returned.
OwnExtracted(i) == OwnTexts(i)[Len(OwnTexts(i))]

\* C18: On every path through detect_and_translate and the worker (skip,
\* same language, detection failure, translation failure), when translated
\* is FALSE the text handed to chunking is the extracted text, unmodified.
C18_UntranslatedTextUnchanged ==
    \A i \in Running :
        PastDecision(i) /\ ~loc[i].translated =>
            /\ TextUnchanged(i)
            /\ ~loc[i].final_text.tr
            /\ loc[i].final_text.len = OwnExtracted(i).n
            /\ loc[i].pc = "index" => loc[i].chunks.content = loc[i].text_content

\* The text whose translation failed has been chunked as it was extracted.
C18_Witness ==
    \E i \in Running :
        /\ loc[i].pc = "index" /\ ~loc[i].translated
        /\ OwnFailed(i, "translate_text")
        /\ loc[i].chunks.content = loc[i].text_content

\* C19: When chunk_content (chunking with embeddings) fails, the document is
\* not aborted: _chunk_and_embed_content returns the chunks of
\* _create_simple_chunks, which carry no vectors, these are what index_chunks
\* is given, and the call returns success = TRUE.
C19_EmbeddingDegraded ==
    \A i \in Docs :
        OwnFailed(i, "chunk_content") =>
            /\ i \in Running \cup Finished
            /\ i \in Running =>
                  /\ loc[i].pc = "index"
                  /\ ~loc[i].chunks.embedded
                  /\ loc[i].chunks.content = loc[i].final_text
                  /\ loc[i].chunks.n = OwnFirst(i, "chunk_content").n
            /\ i \in Finished =>
                  /\ Succeeded(i)
                  /\ OwnFirst(i, "chunk_content").n > 0 =>
                        /\ Called(i, "upload_documents")
                        /\ OwnFirst(i, "upload_documents").sub =
                               OwnFirst(i, "chunk_content").n

\* The embedding step failed and the plain chunks were accepted by the index.
C19_Witness ==
    \E i \in Docs :
        /\ OwnFailed(i, "chunk_content")
        /\ Succeeded(i)
        /\ OwnOk(i, "upload_documents")
        /\ outcome[i].result.chunks_count > 0

\* C20: Partial acceptance by the index is not fatal. When upload_documents
\* accepts k of the n chunks submitted (0 <= k <= n), the call returns
\* success = TRUE with chunks_count = k, the number accepted.
C20_PartialAcceptance ==
    \A i \in Finished :
        Called(i, "upload_documents") =>
            LET c == OwnFirst(i, "upload_documents")
            IN  /\ Len(CallsNamed(i, "upload_documents")) = 1
                /\ c.sub = OwnFirst(i, "chunk_content").n
                /\ c.n <= c.sub
                /\ Succeeded(i)
                /\ outcome[i].result.chunks_count = c.n

\* The index accepted some but not all of the chunks of a document.
C20_Witness ==
    \E i \in Finished :
        /\ OwnOk(i, "upload_documents")
        /\ OwnFirst(i, "upload_documents").n > 0
        /\ OwnFirst(i, "upload_documents").n < OwnFirst(i, "upload_documents").sub
        /\ Succeeded(i)

\* _create_simple_chunks has returned its list.
ChunkingDone == chunking.pc = "done" /\ chunking.ok
\* The Chunker's constraint on the configuration.
OverlapBelowSize == chunking.cfg.chunk_overlap < chunking.cfg.chunk_size
\* The offsets range(0, len(words), chunk_size - overlap) goes through.
WindowStride == chunking.cfg.chunk_size - chunking.cfg.chunk_overlap
WindowStarts == {i \in 0..(Len(chunking.words) - 1) : i % WindowStride = 0}
\* The window of chunk_size tokens at offset i, cut at the end of the text.
WindowAt(i) == Slice(chunking.words, i, i + chunking.cfg.chunk_size)
\* The chunk made of the window at offset i is in the list.
Emitted(i) == \E k \in DOMAIN chunking.chunks : chunking.chunks[k].start = i

\* C21: In every list _create_simple_chunks returns, the chunks are numbered
\* in the order they were emitted, from the first chunk emitted and without
\* gaps, also when a window in between was dropped for being shorter than
\* min_chunk_size; every chunk's text has at least min_chunk_size characters.
C21_NumberedWithoutGaps ==
    ChunkingDone =>
        \A k \in DOMAIN chunking.chunks :
            /\ chunking.chunks[k].number = k
            /\ k > 1 => chunking.chunks[k - 1].start < chunking.chunks[k].start
            /\ JoinedLen(chunking.chunks[k].content) >= chunking.cfg.min_chunk_size

\* Two chunks were emitted and a window between them was dropped.
C21_Witness ==
    /\ ChunkingDone /\ OverlapBelowSize
    /\ \E k \in DOMAIN chunking.chunks :
          /\ k > 1
          /\ \E i \in WindowStarts :
                /\ chunking.chunks[k - 1].start < i /\ i < chunking.chunks[k].start
                /\ ~Emitted(i)

\* _create_simple_chunks has returned or raised.
ChunkingOver == chunking.pc = "done"

C23_SlidingWindows ==
    ChunkingDone /\ 0 < chunking.cfg.chunk_overlap /\ OverlapBelowSize =>
        LET chunks == chunking.chunks
            cfg == chunking.cfg
        IN  /\ \A k \in DOMAIN chunks :
                  /\ chunks[k].start \in WindowStarts
                  /\ chunks[k].content = WindowAt(chunks[k].start)
                  /\ Len(chunks[k].content) <= cfg.chunk_size
            /\ \A i \in WindowStarts :
                  Emitted(i) <=> JoinedLen(WindowAt(i)) >= cfg.min_chunk_size
            /\ \A k \in DOMAIN chunks, j \in DOMAIN chunks :
                  /\ chunks[j].start = chunks[k].start + WindowStride
                  /\ Len(chunks[k].content) = cfg.chunk_size
                  /\ Len(chunks[j].content) = cfg.chunk_size
                  => /\ chunks[k].start + cfg.chunk_size - chunks[j].start
                            = cfg.chunk_overlap
                     /\ SubSeq(chunks[k].content, WindowStride + 1, cfg.chunk_size)
                            = SubSeq(chunks[j].content, 1, cfg.chunk_overlap)
            /\ chunking.words = LongText /\ cfg = DefaultChunkSettings =>
                  /\ Len(chunks) = 3
                  /\ chunks[1].start = 0 /\ chunks[2].start = 900
                  /\ chunks[3].start = 1800

\* The text of 2500 tokens has been cut under the default configuration.
C23_Witness ==
    /\ ChunkingDone
    /\ chunking.words = LongText /\ chunking.cfg = DefaultChunkSettings
    /\ Len(chunking.chunks) = 3
    /\ Len(chunking.chunks[1].content) = 1000
    /\ Len(chunking.chunks[2].content) = 1000

\* error_message is set (is not None) exactly when success is FALSE.
MessageIffFailed(res) == (res.error_message # NoneVal) <=> ~res.success

FirstAt(i, names) == CHOOSE k \in DOMAIN calls[i] :
    /\ calls[i][k].call \in names
    /\ \A j \in DOMAIN calls[i] : calls[i][j].call \in names => k <= j
LastAt(i, names) == CHOOSE k \in DOMAIN calls[i] :
    /\ calls[i][k].call \in names
    /\ \A j \in DOMAIN calls[i] : calls[i][j].call \in names => j <= k

\* Everything that precedes index_chunks has completed for i, in order:
\* validation, the original upload, extraction with enough text, the
\* language decision.
ReadyToChunk(i) ==
    /\ ~Unsupported(i)
    /\ calls[i] # <<>> /\ calls[i][1] = Call("upload_document", TRUE)
    /\ Len(CallsNamed(i, "upload_document")) = 1
    /\ OwnTexts(i) # <<>>
    /\ OwnExtracted(i).ok /\ OwnExtracted(i).n >= MinContentLength
    /\ 1 < FirstAt(i, TextSources)
    /\ Called(i, "detect_language")
    /\ LastAt(i, TextSources) < FirstAt(i, {"detect_language"})
    /\ \A k \in DOMAIN calls[i] :
          calls[i][k].call \in {"translate_text", "upload_translated_content"}
              => FirstAt(i, {"detect_language"}) < k
    /\ ~OwnFailed(i, "upload_translated_content")
ReadyToIndex(i) ==
    /\ ReadyToChunk(i)
    /\ Len(CallsNamed(i, "chunk_content")) = 1
    /\ \A k \in DOMAIN calls[i] :
          calls[i][k].call \in {"upload_document", "detect_language", "translate_text",
                                "upload_translated_content"} \cup TextSources
              => k < FirstAt(i, {"chunk_content"})

\* C25: Stage ordering. index_chunks is reached for a document, and the
\* index backend called, only after format validation, the original upload,
\* extraction, the content-length check, the language decision and chunking
\* have completed for it, in that order; the backend call is the last call
\* of the document, and a document whose result has success = FALSE, or
\* whose future raised, has had no index call.
C25_StageOrdering ==
    \A i \in Docs :
        /\ i \in Running /\ loc[i].pc = "index" => ReadyToIndex(i)
        /\ Called(i, "upload_documents") =>
              /\ ReadyToIndex(i)
              /\ FirstAt(i, {"upload_documents"}) = Len(calls[i])
              /\ FirstAt(i, {"chunk_content"}) = Len(calls[i]) - 1
        /\ i \in Finished /\ ~Succeeded(i) => ~Called(i, "upload_documents")

\* A translated document went through every stage and was indexed.
C25_Witness ==
    \E i \in Docs :
        /\ Succeeded(i)
        /\ OwnOk(i, "upload_translated_content")
        /\ Called(i, "upload_documents")
        /\ Len(OwnTexts(i)) = 2

\* The direct call of extract_text called the analysis backend.
ExtractionAnalysed ==
    \E k \in DOMAIN extraction.calls :
        extraction.calls[k].call = "begin_analyze_document"
\* The direct call tried pdfplumber, and what pdfplumber answered.
ExtractionTriedFast ==
    extraction.calls # <<>> /\ extraction.calls[1].call = "pdfplumber"
ExtractionFast == extraction.calls[1]
\* pdfplumber returned text of at least the threshold of line 270.
FastPathSufficed ==
    /\ ExtractionTriedFast
    /\ ExtractionFast.ok /\ ExtractionFast.n >= PdfMinTextLength

\* C26: Extraction fallback chain. The analysis backend is called if and
\* only if the format is docx or pptx, or the format is pdf and pdfplumber is
\* not installed, raises, or returns text shorter than the threshold; for a
\* pdf whose pdfplumber text meets the threshold that text is returned; for
\* txt, md and html the backend is never called.
C26_FallbackChain ==
    ExtractionDone =>
        /\ ExtractionAnalysed <=>
              \/ ExtractionFormat \in {"docx", "pptx"}
              \/ ExtractionFormat = "pdf" /\ ~FastPathSufficed
        /\ ExtractionTriedFast <=> (ExtractionFormat = "pdf" /\ libs.pdf)
        /\ ExtractionFormat = "pdf" /\ FastPathSufficed =>
              /\ extraction.ok
              /\ extraction.text = Text("pdfplumber", ExtractionFast.n)
              /\ extraction.calls = <<ExtractionFast>>
        /\ ExtractionFormat \in {"txt", "md", "html"} => ~ExtractionAnalysed

\* pdfplumber found 60 characters in a pdf, fewer than 100, and the text of
\* the analysis backend was returned.
C26_Witness ==
    /\ ExtractionDone /\ ExtractionFormat = "pdf"
    /\ ExtractionTriedFast /\ ExtractionFast.ok /\ ExtractionFast.n = 60
    /\ ExtractionAnalysed
    /\ extraction.ok /\ extraction.text.src = "di"

\* extract_text returned for i a text of fewer than 50 characters (the
\* analysis backend's empty answer is raised as an error, not returned).
ExtractedTooLittle(i) ==
    /\ OwnTexts(i) # <<>>
    /\ OwnExtracted(i).ok /\ OwnExtracted(i).n < MinContentLength
    /\ ~(OwnExtracted(i).call = "begin_analyze_document" /\ OwnExtracted(i).n = 0)

\* C27: When the extracted text is empty or has fewer than 50 characters
\* after strip(), the result of the document is success = FALSE with the
\* insufficient-content error, and no language detection, translation,
\* chunking or indexing is done for it.
C27_InsufficientContent ==
    \A i \in Docs :
        ExtractedTooLittle(i) =>
            /\ i \in Finished
            /\ outcome[i].kind = "returned"
            /\ ~outcome[i].result.success
            /\ outcome[i].result.error_message = "Insufficient text content extracted"
            /\ outcome[i].result.chunks_count = 0
            /\ \A k \in DOMAIN calls[i] :
                  calls[i][k].call \in {"upload_document"} \cup TextSources

\* An empty text file was rejected.
C27_Witness ==
    \E i \in Finished :
        /\ ExtractedTooLittle(i)
        /\ OwnExtracted(i).call = "read_file" /\ OwnExtracted(i).n = 0
        /\ ~outcome[i].result.success

\* The caller has aborted the run.
Aborted == opc \in {"aborting", "interrupted"}

\* C28: No partial chunk set is indexed. Under every interleaving, and also
\* when the caller aborts the run while documents are in flight, the index
\* backend is called at most once for a document, with all the chunks of the
\* document; a document in flight has nothing indexed until its last stage,
\* and when the aborted run has left the pool no document is left in flight.
C28_NoPartialChunkSet ==
    /\ \A i \in Docs :
          /\ Len(CallsNamed(i, "upload_documents")) <= 1
          /\ Called(i, "upload_documents") =>
                /\ OwnFirst(i, "upload_documents").sub = OwnFirst(i, "chunk_content").n
                /\ Succeeded(i)
          /\ i \in Running \cup Queued => ~Called(i, "upload_documents")
    /\ opc = "interrupted" => \A i \in inflight : i \in Finished

\* The run was aborted while a document was in flight, and that document
\* has been indexed whole.
C28_Witness ==
    /\ opc = "interrupted"
    /\ \E i \in inflight :
          /\ Called(i, "upload_documents")
          /\ OwnFirst(i, "upload_documents").sub = MaxDocChunks
          /\ Succeeded(i)

\* C29: Termination. Under a fair scheduler, and with collaborators that
\* always answer, every future of the run ends up finished with an outcome
\* and stays so, and the run ends: for a non-empty list ingest_documents
\* returns the report, for the empty list it ends by raising.
C29_Termination ==
    /\ <>[](/\ nsub = Len(file_paths)
            /\ \A i \in Docs : fut[i] = "finished" /\ outcome[i].kind # "none")
    /\ <>(opc \in {"returned", "raised"})
    /\ Len(file_paths) > 0 => <>(opc = "returned" /\ InReport)

\* The report of a run that had more documents than threads in its pool.
C29_Witness ==
    /\ opc = "returned" /\ InReport
    /\ Len(file_paths) > max_workers
    /\ \A i \in Docs : fut[i] = "finished"

\* C30: No retries. Every element of the list gets one future, a future
\* that is finished stays finished with the outcome it has, no work item
\* runs to its end twice, and no document's original is uploaded twice;
\* when the statistics are due every work item has run exactly once.
C30_NoRetries ==
    /\ [](/\ nsub <= Len(file_paths)
          /\ \A i \in Docs :
                /\ fut[i] # "unsubmitted" <=> i <= nsub
                /\ Times(completion, i) <= 1
                /\ Times(completion, i) = 1 <=> fut[i] = "finished"
                /\ Len(CallsNamed(i, "upload_document")) <= 1
          /\ opc \in {"stats", "returned", "raised"} =>
                \A i \in Docs : Times(completion, i) = 1)
    /\ [][\A i \in Docs :
             /\ fut[i] = "finished" =>
                   /\ fut'[i] = "finished" /\ outcome'[i] = outcome[i]
                   /\ calls'[i] = calls[i]
             /\ fut[i] = "running" => fut'[i] \in {"running", "finished"}]_vars

\* A run that returned with a document whose original upload failed: the
\* upload was attempted once and the work item ran once.
C30_Witness ==
    /\ opc = "returned" /\ InReport
    /\ \E i \in Docs :
          /\ outcome[i].kind = "returned" /\ ~outcome[i].result.success
          /\ CallsNamed(i, "upload_document") = <<Call("upload_document", FALSE)>>
          /\ Times(completion, i) = 1

\* sum(r.chunks_count for r in rs)
RECURSIVE SumChunks(_)
SumChunks(rs) ==
    IF rs = <<>> THEN 0
    ELSE SumChunks(SubSeq(rs, 1, Len(rs) - 1)) + rs[Len(rs)].chunks_count

\* The documents whose worker returned a result with translated=True.
TranslatedDocs ==
    {i \in Docs : outcome[i].kind = "returned" /\ outcome[i].result.translated}

\* C31: No lost update. At every moment the list of results holds one entry
\* per future yielded so far, the entry of a worker that returned being the
\* result it returned, and total_chunks is the sum of their chunks_count;
\* in the report total_chunks is that sum over the results listed and
\* translated_files counts the listed results with translated=True, which
\* are those of the documents whose workers returned translated=True.
C31_NoLostUpdate ==
    /\ Len(results) = Len(yielded)
    /\ \A k \in DOMAIN yielded :
          outcome[yielded[k]].kind = "returned" =>
              results[k] = outcome[yielded[k]].result
    /\ total_chunks = SumChunks(results)
    /\ InReport =>
          /\ report.results = results
          /\ report.total_chunks = SumChunks(report.results)
          /\ report.translated_files =
                Cardinality({k \in DOMAIN report.results : report.results[k].translated})
          /\ report.translated_files = Cardinality(TranslatedDocs)

\* A report over two documents that were both translated and indexed, one
\* finished before collection began and one after.
C31_Witness ==
    /\ InReport /\ Len(file_paths) = 2
    /\ report.total_chunks = 2 * MaxChunks /\ report.translated_files = 2
    /\ Cardinality(snapshot) = 1

\* A failed result carries the defaults, whatever the worker had reached.
FailureDefaults(res) ==
    ~res.success =>
        /\ ~res.translated /\ res.chunks_count = 0
        /\ res.detected_language = "unknown"

\* C32: Every result with success=False, returned by a worker or made for
\* a future that raised, has translated=False, chunks_count 0 and
\* detected_language "unknown"; so in a report translated_files is at most
\* processed_files, is 0 when processed_files is 0, and the statistics
\* never divide by zero for a non-empty list.
C32_FailureDefaults ==
    /\ \A i \in Finished :
          outcome[i].kind = "returned" => FailureDefaults(outcome[i].result)
    /\ \A k \in DOMAIN results : FailureDefaults(results[k])
    /\ LET r == PipelineResult(results, total_chunks)
       IN  /\ r.translated_files <= r.processed_files
           /\ r.translated_files > 0 => r.processed_files > 0
           /\ Len(file_paths) > 0 => ~SummaryRaises(r)
    /\ InReport =>
          /\ \A k \in DOMAIN report.results : FailureDefaults(report.results[k])
          /\ report.translated_files <= report.processed_files

\* The report of a document that was detected as French and translated,
\* and failed when the translated text was uploaded.
C32_Witness ==
    /\ InReport /\ report.processed_files = 0 /\ report.translated_files = 0
    /\ \E i \in Docs :
          /\ \E k \in DOMAIN calls[i] :
                calls[i][k].call = "translate_text" /\ calls[i][k].ok
          /\ \E k \in DOMAIN calls[i] :
                calls[i][k].call = "upload_translated_content" /\ ~calls[i][k].ok
          /\ outcome[i].kind = "returned" /\ ~outcome[i].result.success
          /\ outcome[i].result.detected_language = "unknown"

\* The direct call of index_chunks has returned or raised.
IndexingDone == indexing.pc = "done"

\* Document i finished after chunking had completed for it.
PassedToIndex(i) == i \in Finished /\ Called(i, "chunk_content")

\* C33: index_chunks never raises. It returns 0 without calling the backend
\* when the search client is missing or the list of chunks is empty, and 0
\* when upload_documents raises; so a document for which chunking completed
\* is reported with success=True, with chunks_count 0 when it had no chunks
\* (and then no backend call) or when upload_documents raised.
C33_IndexChunksNeverRaises ==
    /\ IndexingDone =>
          /\ indexing.ok
          /\ ~indexing.search_client \/ indexing.n = 0 =>
                indexing.count = 0 /\ indexing.calls = <<>>
          /\ indexing.search_client /\ indexing.n > 0 =>
                /\ Len(indexing.calls) = 1
                /\ indexing.count = indexing.answer.n
                /\ ~indexing.answer.ok => indexing.count = 0
    /\ \A i \in Docs :
          PassedToIndex(i) =>
              /\ Succeeded(i)
              /\ OwnFirst(i, "chunk_content").n = 0 =>
                    /\ ~Called(i, "upload_documents")
                    /\ outcome[i].result.chunks_count = 0
              /\ Called(i, "upload_documents") =>
                    /\ outcome[i].result.chunks_count = OwnFirst(i, "upload_documents").n
                    /\ ~OwnFirst(i, "upload_documents").ok =>
                          outcome[i].result.chunks_count = 0

\* A manager without a search client returned 0 for a non-empty list, and a
\* document whose upload_documents call raised is reported as a success with
\* no chunk.
C33_Witness ==
    /\ IndexingDone /\ ~indexing.search_client /\ indexing.n > 0
    /\ indexing.ok /\ indexing.count = 0
    /\ \E i \in Docs :
          /\ Succeeded(i)
          /\ Called(i, "upload_documents") /\ ~OwnFirst(i, "upload_documents").ok
          /\ outcome[i].result.chunks_count = 0

\* The Chunker's constraint 0 < overlap < chunk_size, on a text that is as
\* a whole not below min_chunk_size.
LongEnoughText ==
    /\ 0 < chunking.cfg.chunk_overlap /\ OverlapBelowSize
    /\ JoinedLen(chunking.words) >= chunking.cfg.min_chunk_size
\* The window at offset i holds token p, the p-th word of the text.
WindowHolds(i, p) == i < p /\ p <= i + Len(WindowAt(i))
\* Token p is in a chunk of the list, at its place in the chunk's text.
InSomeChunk(p) ==
    \E k \in DOMAIN chunking.chunks :
        LET c == chunking.chunks[k]
        IN  /\ c.start < p /\ p <= c.start + Len(c.content)
            /\ c.content[p - c.start] = chunking.words[p]
\* A window this short loses to no minimum the claim allows: more than
\* overlap words and the spaces between them.
SmallMinimum == chunking.cfg.min_chunk_size <= 2 * chunking.cfg.chunk_overlap + 1

\* C34 as stated: with 0 < overlap < chunk_size, every token of a text that
\* is not below min_chunk_size is in at least one chunk of the list; read
\* here under the Chunker's other constraint, min_chunk_size <= chunk_size.
C34_NoContentLoss ==
    ChunkingDone /\ LongEnoughText
                 /\ chunking.cfg.min_chunk_size <= chunking.cfg.chunk_size =>
        \A p \in DOMAIN chunking.words : InSomeChunk(p)

\* C34 amended: a token is in a chunk of the list exactly when one of the
\* windows that hold it has min_chunk_size characters; when min_chunk_size
\* is at most 2 * overlap + 1, as with the defaults 1000, 100, 50, every
\* token of a text that is not below min_chunk_size is in a chunk.
C34_NoContentLossSmallMinimum ==
    ChunkingDone /\ LongEnoughText =>
        /\ \A p \in DOMAIN chunking.words :
              InSomeChunk(p) <=>
                  \E i \in WindowStarts :
                      /\ WindowHolds(i, p)
                      /\ JoinedLen(WindowAt(i)) >= chunking.cfg.min_chunk_size
        /\ SmallMinimum => \A p \in DOMAIN chunking.words : InSomeChunk(p)

\* The window at the end of the text was dropped, and its tokens are in the
\* chunk before it.
C34_Witness ==
    /\ ChunkingDone /\ LongEnoughText /\ SmallMinimum
    /\ Len(chunking.chunks) >= 2
    /\ \E i \in WindowStarts :
          /\ ~Emitted(i) /\ WindowHolds(i, Len(chunking.words))
          /\ InSomeChunk(Len(chunking.words))

====
